---- MODULE Spec2Model ----
(***************************************************************************)
(* Overlay installer of talos-dgx-spark (ASUS Ascent GX10).                *)
(*                                                                         *)
(* Three entry points are modelled, each from its own source:              *)
(*   "dispatch"   installer.go:30-206   main / install (sub-command form)  *)
(*   "positional" unnamed/part_001      main (two positional arguments)    *)
(*   "plugin"     installer.go:227-319  Installer.Install                  *)
(*                                                                         *)
(* The file system is one name space: a function from paths (sequences of  *)
(* names) to entries.  Overlay and target both live in it.  The copier is  *)
(* modelled entry by entry, the way filepath.Walk calls the walk function. *)
(*                                                                         *)
(* Five specifications share the actions:                                  *)
(*   Spec      the usual invocation of each form on overlays and targets   *)
(*             with a bounded number of oddities                           *)
(*   SpecCopy  the copier alone, on every source tree, destination state,  *)
(*             mask and user of its scenario                               *)
(*   SpecCmd   every command line and standard input of the two            *)
(*             command-line forms                                          *)
(*   SpecStat  the resolver of the sub-command form where stat of a        *)
(*             candidate fails                                             *)
(*   SpecPlace the target root apart from, at, and inside the overlay,     *)
(*             with the fairness of a process that is run to its end       *)
(***************************************************************************)
EXTENDS Integers, Sequences, FiniteSets, TLC

VARIABLES
    form,         \* which entry point runs: "dispatch", "positional", "plugin"
    pc,           \* position of the program
    fs,           \* the file system: path -> entry
    fs0,          \* the file system when the program started (never changes)
    overlayPath,  \* overlay root
    rootfsPath,   \* target root
    umask,        \* the process's file mode creation mask
    euid,         \* the user the process runs as: "root" or "user"
    args,         \* os.Args[1:] of a command-line form
    stdin,        \* what standard input holds
    out,          \* the lines printed so far, oldest first
    stage,        \* category of the copy in progress ("none" outside a copy)
    src,          \* copyDirectory's src
    dst,          \* copyDirectory's dst
    todo,         \* entries filepath.Walk has still to visit, in order
    result,       \* outcome of the invocation
    log,          \* stage events, in the order they happened
    written       \* path -> what the installer wrote there, oldest first

\* What the environment hands to a run; no step changes it.
env == <<form, fs0, umask, euid, args, stdin>>

vars == <<env, pc, fs, overlayPath, rootfsPath, stage, src, dst, todo, result,
          out, log, written>>

-----------------------------------------------------------------------------
(* Bounds of the model. *)

\* At most this many departures from a cleanly staged overlay and an empty
\* target, counted together: a candidate path that is a regular file, a
\* staged file that cannot be opened or read, a target that already holds
\* something.  A staged special file is the one departure of its start
\* state.
MaxOdd == 1
\* Length of a file the destination holds before the copy (longer than any
\* staged file).
StaleLen == 3
\* The longest path the kernel takes, in names (PATH_MAX, in bytes, in the
\* kernel); a longer one is ENAMETOOLONG.  No start state holds a path
\* this long.
MaxPath == 8

-----------------------------------------------------------------------------
(* Permission bits, as sets. *)

Perm0755 == {"ur", "uw", "ux", "gr", "gx", "or", "ox"}
Perm0644 == {"ur", "uw", "gr", "or"}
Perm0600 == {"ur", "uw"}
Perm0777 == {"ur", "uw", "ux", "gr", "gw", "gx", "or", "ow", "ox"}
Perm0555 == {"ur", "ux", "gr", "gx", "or", "ox"}
Perm0444 == {"ur", "gr", "or"}
Umask022 == {"gw", "ow"}
Umask077 == {"gr", "gw", "gx", "or", "ow", "ox"}
\* The masks a process is started with.
Umasks == {Umask022, Umask077}
\* The users a process is started as.
Euids == {"root", "user"}

-----------------------------------------------------------------------------
(* Paths.  filepath.Join is concatenation; filepath.Rel(src, path) strips   *)
(* the prefix src ("." is the empty sequence); filepath.Dir drops the last  *)
(* name.                                                                    *)

Join(a, b) == a \o b
Rel(base, path) == SubSeq(path, Len(base) + 1, Len(path))
Dir(path) == SubSeq(path, 1, Len(path) - 1)
Prefix(path, n) == SubSeq(path, 1, n)
IsPrefix(a, b) == Len(a) <= Len(b) /\ SubSeq(b, 1, Len(a)) = a

\* Lexical order of every name the model uses (readDirNames sorts).
NameOrder == <<"alt", "artifacts", "asus-ascent-gx10-overlay", "cwd", "d", "e",
               "files", "firmware", "install", "installers", "keep",
               "kernel-modules", "lib", "modules", "ov", "rt", "x", "y">>
Rank(n) == CHOOSE i \in 1..Len(NameOrder) : NameOrder[i] = n

-----------------------------------------------------------------------------
(* File system. *)

DirEntry(m) ==
    [kind |-> "dir", data |-> <<>>, mode |-> m, fault |-> "none", link |-> <<>>]
FileEntry(d, m) ==
    [kind |-> "file", data |-> d, mode |-> m, fault |-> "none", link |-> <<>>]
\* A symbolic link to path t; Lstat reports its mode as 0777.
LinkEntry(t) ==
    [kind |-> "symlink", data |-> <<>>, mode |-> Perm0777, fault |-> "none", link |-> t]
\* A socket, or a character device that reads as empty.
OtherEntry(k, m) ==
    [kind |-> k, data |-> <<>>, mode |-> m, fault |-> "none", link |-> <<>>]

\* The path os.Open and io.Copy work on: a symbolic link is followed.
Follow(f, p) == IF p \in DOMAIN f /\ f[p].kind = "symlink" THEN f[p].link ELSE p

Exists(f, p) == p \in DOMAIN f
IsDirAt(f, p) == Exists(f, p) /\ f[p].kind = "dir"

\* A directory can be passed through by root, and by another user when
\* its owner may search it.
MaySearch(m) == euid = "root" \/ "ux" \in m

\* os.Stat / os.Lstat: "ok", or ENOENT when the path is missing below a
\* directory, or, at the first name on the way that cannot be passed,
\* ENOTDIR when it is not a directory and EACCES when it may not be
\* searched, or ENAMETOOLONG.
Stat(f, p) ==
    LET stops == {n \in 0..(Len(p) - 1) :
                     /\ Exists(f, Prefix(p, n))
                     /\ f[Prefix(p, n)].kind # "dir" \/ ~MaySearch(f[Prefix(p, n)].mode)}
        first == CHOOSE n \in stops : \A k \in stops : n <= k
    IN IF Len(p) > MaxPath THEN "ENAMETOOLONG"
       ELSE IF stops # {}
       THEN IF f[Prefix(p, first)].kind # "dir" THEN "ENOTDIR" ELSE "EACCES"
       ELSE IF Exists(f, p) THEN "ok"
       ELSE "ENOENT"

\* Mutant of IsNotExist: any error of stat counts as "does not exist".
IsNotExist_anyError(err) == err # "ok"

\* os.IsNotExist(err): true of ENOENT alone.
IsNotExist(err) == err = "ENOENT"

\* The names in directory p, sorted.
Children(f, p) == {q \in DOMAIN f : Len(q) = Len(p) + 1 /\ Dir(q) = p}

RECURSIVE SortPaths(_)
SortPaths(S) ==
    IF S = {} THEN <<>>
    ELSE LET m == CHOOSE q \in S :
                    \A r \in S : Rank(q[Len(q)]) <= Rank(r[Len(r)])
         IN <<m>> \o SortPaths(S \ {m})

\* Mutant of readDirNames: the names come back in reverse order.
readDirNames_reversed(f, p) ==
    LET names == SortPaths(Children(f, p))
    IN [i \in 1..Len(names) |-> names[Len(names) + 1 - i]]

readDirNames(f, p) == SortPaths(Children(f, p))

\* A write of entry e at path p.
Put(f, p, e) == (p :> e) @@ f

\* The one element of a set: {e(v) : v \in {x}} names the value x once.
The(S) == CHOOSE v \in S : TRUE

\* What the kernel lets the process do with an entry it owns: root may do
\* anything, another user what the owner bits of the mode allow.  Every
\* entry of the model belongs to the user the process runs as.
MayRead(m) == euid = "root" \/ "ur" \in m
MayWrite(m) == euid = "root" \/ "uw" \in m
\* A name can be added to a directory that is writable and searchable.
MayAddTo(m) == euid = "root" \/ {"uw", "ux"} \subseteq m

\* os.MkdirAll(path, perm): existing directories are left alone, missing
\* ones are made from the top down with perm minus the umask; a
\* non-directory on the way is ENOTDIR and nothing is made; a directory
\* that may not be added to is EACCES, and what was made above it stays.
\* Of a path that is too long the part the kernel takes is made, and the
\* mkdir of the next name is ENAMETOOLONG.
Within(p) == IF Len(p) > MaxPath THEN Prefix(p, MaxPath) ELSE p

MkdirAllMissing(f, p) == {n \in 0..Len(p) : ~Exists(f, Prefix(p, n))}

MkdirAllErr(f, p, perm, um) ==
    LET q == Within(p)
        missing == MkdirAllMissing(f, q)
        first == CHOOSE n \in missing : \A k \in missing : n <= k
    IN IF \E n \in 0..Len(q) : Exists(f, Prefix(q, n)) /\ f[Prefix(q, n)].kind # "dir"
       THEN "ENOTDIR"
       ELSE IF missing # {} /\ ~MayAddTo(f[Prefix(q, first - 1)].mode) THEN "EACCES"
       ELSE IF Cardinality(missing) > 1 /\ ~MayAddTo(perm \ um) THEN "EACCES"
       ELSE IF q # p THEN "ENAMETOOLONG"
       ELSE "none"

MkdirAllMade(f, p, perm, um) ==
    LET q == Within(p)
        missing == MkdirAllMissing(f, q)
        first == CHOOSE n \in missing : \A k \in missing : n <= k
    IN IF MkdirAllErr(f, p, perm, um) \in {"none", "ENAMETOOLONG"}
       THEN {Prefix(q, n) : n \in missing}
       ELSE IF /\ MkdirAllErr(f, p, perm, um) = "EACCES"
               /\ MayAddTo(f[Prefix(q, first - 1)].mode)
       THEN {Prefix(q, first)}
       ELSE {}

MkdirAll(f, p, perm, um) ==
    LET wrote == [q \in MkdirAllMade(f, p, perm, um) |-> DirEntry(perm \ um)]
    IN [fs |-> wrote @@ f, err |-> MkdirAllErr(f, p, perm, um), wrote |-> wrote]

\* os.Open(name) for reading, name already followed: the error, or
\* "none".  A directory opens, a socket does not.
OpenErr(f, p) ==
    IF Stat(f, p) # "ok" THEN Stat(f, p)
    ELSE IF f[p].kind = "socket" THEN "ENXIO"
    ELSE IF f[p].fault = "open" \/ ~MayRead(f[p].mode) THEN "EACCES"
    ELSE "none"

\* os.OpenFile(name, O_CREATE|O_WRONLY|O_TRUNC, perm): the error, or "none".
OpenFileErr(f, p) ==
    IF Len(p) > MaxPath THEN "ENAMETOOLONG"
    ELSE IF Stat(f, Dir(p)) # "ok" THEN Stat(f, Dir(p))
    ELSE IF f[Dir(p)].kind # "dir" THEN "ENOTDIR"
    ELSE IF Exists(f, p) /\ f[p].kind = "dir" THEN "EISDIR"
    ELSE IF Exists(f, p) /\ ~MayWrite(f[p].mode) THEN "EACCES"
    ELSE IF ~Exists(f, p) /\ ~MayAddTo(f[Dir(p)].mode) THEN "EACCES"
    ELSE "none"

\* Mutant of OpenFileTrunc: the flag O_TRUNC left out, an existing file
\* keeps its bytes.
OpenFileTrunc_keep(f, p, perm, um) ==
    IF Exists(f, p) THEN f[p] ELSE FileEntry(<<>>, perm \ um)

\* Mutant of OpenFileTrunc: an existing file is given perm as well.
OpenFileTrunc_chmod(f, p, perm, um) == FileEntry(<<>>, perm \ um)

\* The file as os.OpenFile leaves it: an existing file keeps its mode and
\* O_TRUNC empties it; a new file gets perm minus the umask.
OpenFileTrunc(f, p, perm, um) ==
    IF Exists(f, p) THEN [f[p] EXCEPT !.data = <<>>]
    ELSE FileEntry(<<>>, perm \ um)

\* Bytes of a file after new is written at offset 0 over old.
WriteAt0(old, new) == new \o SubSeq(old, Len(new) + 1, Len(old))

\* What reading the open source file to its end returns: an error, or "none".
ReadErr(f, p) ==
    IF f[p].kind = "dir" THEN "EISDIR"
    ELSE IF f[p].fault = "read" THEN "EIO"
    ELSE "none"

\* Mutant of copyFile: a destination whose copy failed is removed again.
copyFile_cleanup(f, s, d, mode, um) ==
    IF OpenErr(f, Follow(f, s)) # "none"
    THEN [fs |-> f, err |-> OpenErr(f, Follow(f, s)), wrote |-> <<>>]
    ELSE IF OpenFileErr(f, d) # "none"
    THEN [fs |-> f, err |-> OpenFileErr(f, d), wrote |-> <<>>]
    ELSE LET f1 == Put(f, d, OpenFileTrunc(f, d, mode, um))
         IN IF ReadErr(f1, Follow(f, s)) # "none"
            THEN [fs |-> [q \in (DOMAIN f1) \ {d} |-> f1[q]],
                  err |-> ReadErr(f1, Follow(f, s)), wrote |-> (d :> f1[d])]
            ELSE LET e == [f1[d] EXCEPT !.data = WriteAt0(f1[d].data, f1[Follow(f, s)].data)]
                 IN [fs |-> Put(f1, d, e), err |-> "none", wrote |-> (d :> e)]

\* Mutant of copyFile: a destination that exists is left as it is.
copyFile_noClobber(f, s, d, mode, um) ==
    IF OpenErr(f, Follow(f, s)) # "none"
    THEN [fs |-> f, err |-> OpenErr(f, Follow(f, s)), wrote |-> <<>>]
    ELSE IF Exists(f, d)
    THEN [fs |-> f, err |-> "none", wrote |-> <<>>]
    ELSE IF OpenFileErr(f, d) # "none"
    THEN [fs |-> f, err |-> OpenFileErr(f, d), wrote |-> <<>>]
    ELSE The({IF ReadErr(f1, Follow(f, s)) # "none"
              THEN [fs |-> f1, err |-> ReadErr(f1, Follow(f, s)), wrote |-> (d :> f1[d])]
              ELSE LET e == [f1[d] EXCEPT
                                !.data = WriteAt0(f1[d].data, f1[Follow(f, s)].data)]
                   IN [fs |-> Put(f1, d, e), err |-> "none", wrote |-> (d :> e)] :
              f1 \in {Put(f, d, OpenFileTrunc(f, d, mode, um))}})

\* copyFile(src, dst, mode): every result carries the file system left
\* behind (fs), the error (err) and what was written where (wrote).  The
\* source is opened through a symbolic link; the destination is a regular
\* file whatever the source is.
\* installer.go:191-206
copyFile(f, s, d, mode, um) ==
    IF OpenErr(f, Follow(f, s)) # "none"
    THEN [fs |-> f, err |-> OpenErr(f, Follow(f, s)), wrote |-> <<>>]
    ELSE IF OpenFileErr(f, d) # "none"
    THEN [fs |-> f, err |-> OpenFileErr(f, d), wrote |-> <<>>]
    ELSE The({IF ReadErr(f1, Follow(f, s)) # "none"
              THEN [fs |-> f1, err |-> ReadErr(f1, Follow(f, s)), wrote |-> (d :> f1[d])]
              ELSE LET e == [f1[d] EXCEPT
                                !.data = WriteAt0(f1[d].data, f1[Follow(f, s)].data)]
                   IN [fs |-> Put(f1, d, e), err |-> "none", wrote |-> (d :> e)] :
              f1 \in {Put(f, d, OpenFileTrunc(f, d, mode, um))}})

\* Mutant of walkFn: a destination directory is emptied of what the source
\* directory does not hold.
walkFn_mirror(f, path, s, d, um) ==
    LET relPath == Rel(s, path)
        dstPath == Join(d, relPath)
        extra(g) == {q \in DOMAIN g : /\ IsPrefix(dstPath, q) /\ q # dstPath
                                      /\ ~Exists(f, Join(path, Rel(dstPath, q)))}
    IN IF f[path].kind = "dir"
       THEN The({[m EXCEPT !.fs = [q \in (DOMAIN m.fs) \ extra(m.fs) |-> m.fs[q]]] :
                 m \in {MkdirAll(f, dstPath, f[path].mode, um)}})
       ELSE The({IF m.err # "none" THEN m
                 ELSE The({[c EXCEPT !.wrote = c.wrote @@ m.wrote] :
                           c \in {copyFile(m.fs, path, dstPath, f[path].mode, um)}}) :
                 m \in {MkdirAll(f, Dir(dstPath), Perm0755, um)}})

\* The function copyDirectory hands to filepath.Walk, for one entry that
\* Lstat found.                                      installer.go:164-187
walkFn(f, path, s, d, um) ==
    LET relPath == Rel(s, path)
        dstPath == Join(d, relPath)
    IN IF f[path].kind = "dir"
       THEN MkdirAll(f, dstPath, f[path].mode, um)
       ELSE The({IF m.err # "none" THEN m
                 ELSE The({[c EXCEPT !.wrote = c.wrote @@ m.wrote] :
                           c \in {copyFile(m.fs, path, dstPath, f[path].mode, um)}}) :
                 m \in {MkdirAll(f, Dir(dstPath), Perm0755, um)}})

\* One entry of filepath.Walk: Lstat, the directory's names read before the
\* walk function runs, the walk function, and the names queued in order.
\* An error from Lstat or from reading the directory goes to the walk
\* function, which returns it (installer.go:165-167).
WalkOne(f, td, s, d, um) ==
    LET path == Head(td)
    IN IF Stat(f, path) # "ok"
       THEN [fs |-> f, todo |-> <<>>, err |-> Stat(f, path), wrote |-> <<>>]
       ELSE IF f[path].kind = "dir"
               /\ (f[path].fault = "readdir" \/ ~MayRead(f[path].mode))
       THEN [fs |-> f, todo |-> <<>>, err |-> "EACCES", wrote |-> <<>>]
       ELSE LET names == IF f[path].kind = "dir" THEN readDirNames(f, path) ELSE <<>>
            IN The({[fs |-> r.fs,
                     todo |-> IF r.err # "none" THEN <<>> ELSE names \o Tail(td),
                     err |-> r.err,
                     wrote |-> r.wrote] : r \in {walkFn(f, path, s, d, um)}})

\* copyDirectory(src, dst) run to its end: the file system it leaves and the
\* error it returns.                                  installer.go:163-188
RECURSIVE WalkAll(_, _, _, _, _)
WalkAll(f, td, s, d, um) ==
    IF td = <<>> THEN [fs |-> f, err |-> "none"]
    ELSE LET r == WalkOne(f, td, s, d, um)
         IN IF r.err # "none" THEN [fs |-> r.fs, err |-> r.err]
            ELSE WalkAll(r.fs, r.todo, s, d, um)

copyDirectory(f, s, d, um) == WalkAll(f, <<s>>, s, d, um)

-----------------------------------------------------------------------------
(* Categories, their candidate source paths and their targets. *)

KM == "kernel-modules"
FW == "firmware"
CF == "config-files"
BP == "boot-parameters"
Categories == {KM, FW, CF}

\* Order of the stages in install / main / Installer.Install.
StageOrder == <<KM, FW, CF, BP>>
StageIndex(c) == CHOOSE i \in 1..Len(StageOrder) : StageOrder[i] = c

\* installer.go:109,128,147
ArtifactsRel(c) ==
    CASE c = KM -> <<"artifacts", "install", "kernel-modules">>
      [] c = FW -> <<"artifacts", "install", "firmware">>
      [] c = CF -> <<"artifacts", "files">>

\* installer.go:112,131,150; part_001:56,70,84; installer.go:266,282,298
LegacyRel(c) ==
    CASE c = KM -> <<"install", "kernel-modules">>
      [] c = FW -> <<"install", "firmware">>
      [] c = CF -> <<"files">>

\* Mutant of TargetDir: configuration files land below files/ in the
\* target.
TargetDir_filesPrefix(c, rt) ==
    CASE c = KM -> Join(rt, <<"lib", "modules">>)
      [] c = FW -> Join(rt, <<"lib", "firmware">>)
      [] c = CF -> Join(rt, <<"files">>)

\* installer.go:114,133,159; part_001:57,71,92
TargetDir(c, rt) ==
    CASE c = KM -> Join(rt, <<"lib", "modules">>)
      [] c = FW -> Join(rt, <<"lib", "firmware">>)
      [] c = CF -> rt

\* Mutant of SourceDir: no fallback to the legacy candidate.
SourceDir_noFallback(f, ov, c) == Join(ov, ArtifactsRel(c))

\* Mutant of SourceDir: the legacy candidate tried first.
SourceDir_legacyFirst(f, ov, c) ==
    IF IsNotExist(Stat(f, Join(ov, LegacyRel(c))))
    THEN Join(ov, ArtifactsRel(c))
    ELSE Join(ov, LegacyRel(c))

\* The source directory the sub-command form settles on: the artifacts/
\* candidate unless stat says it does not exist.      installer.go:109-113
SourceDir(f, ov, c) ==
    IF IsNotExist(Stat(f, Join(ov, ArtifactsRel(c))))
    THEN Join(ov, LegacyRel(c))
    ELSE Join(ov, ArtifactsRel(c))

\* The source directory of the positional form.       part_001:56,70,84
SourceDirPos(f, ov, c) == Join(ov, LegacyRel(c))

\* The source directory of the plugin form.           installer.go:266,282,298
SourceDirPlugin(f, ov, c) == Join(ov, LegacyRel(c))

SourceOf(fm, f, ov, c) ==
    CASE fm = "dispatch" -> SourceDir(f, ov, c)
      [] fm = "positional" -> SourceDirPos(f, ov, c)
      [] fm = "plugin" -> SourceDirPlugin(f, ov, c)

\* Mutant of Skips: a stage never skips.
Skips_never(f, sourceDir) == FALSE

\* A stage skips when stat of its source directory says "does not exist".
\* installer.go:116,135,153; part_001:59,73,86
Skips(f, sourceDir) == IsNotExist(Stat(f, sourceDir))

-----------------------------------------------------------------------------
(* Outcomes. *)

Running == [code |-> -1, failed |-> "none", err |-> "none"]
Success == [code |-> 0, failed |-> "none", err |-> "none"]
Failure(c, e) == [code |-> 1, failed |-> c, err |-> e]

\* A printed line: the stream, the text without its arguments, and the
\* category it is about ("none" for a line of main or install).
Line(stream, text, c) == [stream |-> stream, text |-> text, stage |-> c]

\* installer.go:102; part_001:51
Marker == "Overlay installation completed successfully"
SuccessLine == Line("stdout", Marker, "none")

\* Mutant of NextPc: config files before firmware.
NextPc_reordered(fm, c) ==
    CASE c = KM -> CF
      [] c = CF -> FW
      [] c = FW -> IF fm = "plugin" THEN BP ELSE "exit"
      [] c = BP -> "exit"

\* Mutant of NextPc: after the last stage control goes back into the walk
\* instead of returning.
NextPc_noExit(fm, c) ==
    CASE c = KM -> FW
      [] c = FW -> CF
      [] c = CF -> IF fm = "plugin" THEN BP ELSE "walk"
      [] c = BP -> "walk"

\* The stage after c, or "exit" after the last one of the form.
NextPc(fm, c) ==
    CASE c = KM -> FW
      [] c = FW -> CF
      [] c = CF -> IF fm = "plugin" THEN BP ELSE "exit"
      [] c = BP -> "exit"

\* Mutant of install_after: the stage's error is dropped and the next
\* stage runs.
install_after_keepGoing(c, e) ==
    [pc |-> NextPc("dispatch", c),
     result |-> IF NextPc("dispatch", c) = "exit" THEN Success ELSE Running,
     says |-> IF NextPc("dispatch", c) = "exit" THEN <<SuccessLine>> ELSE <<>>]

\* Mutant of install_after: the marker is printed before the last stage's
\* error is looked at.
install_after_markerEarly(c, e) ==
    IF e # "none"
    THEN [pc |-> "exit", result |-> Failure(c, e),
          says |-> IF NextPc("dispatch", c) = "exit"
                   THEN <<SuccessLine, Line("stderr", "Error: failed to install", c)>>
                   ELSE <<Line("stderr", "Error: failed to install", c)>>]
    ELSE [pc |-> NextPc("dispatch", c),
          result |-> IF NextPc("dispatch", c) = "exit" THEN Success ELSE Running,
          says |-> IF NextPc("dispatch", c) = "exit" THEN <<SuccessLine>> ELSE <<>>]

\* install(), after a stage returned e: a wrapped error that names the
\* stage, which main prints to standard error before it exits with 1, or
\* on to the next stage, and after the last one the success marker.
\* installer.go:40-43,87-103
install_after(c, e) ==
    IF e # "none"
    THEN [pc |-> "exit", result |-> Failure(c, e),
          says |-> <<Line("stderr", "Error: failed to install", c)>>]
    ELSE [pc |-> NextPc("dispatch", c),
          result |-> IF NextPc("dispatch", c) = "exit" THEN Success ELSE Running,
          says |-> IF NextPc("dispatch", c) = "exit" THEN <<SuccessLine>> ELSE <<>>]

\* main() of the positional form, after a stage returned e.  part_001:33-51
main_pos_after(c, e) ==
    IF e # "none"
    THEN [pc |-> "exit", result |-> Failure(c, e),
          says |-> <<Line("stderr", "Failed to install", c)>>]
    ELSE [pc |-> NextPc("positional", c),
          result |-> IF NextPc("positional", c) = "exit" THEN Success ELSE Running,
          says |-> IF NextPc("positional", c) = "exit" THEN <<SuccessLine>> ELSE <<>>]

\* Mutant of Install_after: a stage's error is dropped and Install goes
\* on.
Install_after_goOn(c, e) ==
    [pc |-> NextPc("plugin", c),
     result |-> IF NextPc("plugin", c) = "exit" THEN Success ELSE Running,
     says |-> <<>>]

\* Installer.Install, after a stage returned e; it prints nothing.
\* installer.go:240-262
Install_after(c, e) ==
    IF e # "none" THEN [pc |-> "exit", result |-> Failure(c, e), says |-> <<>>]
    ELSE [pc |-> NextPc("plugin", c),
          result |-> IF NextPc("plugin", c) = "exit" THEN Success ELSE Running,
          says |-> <<>>]

After(fm, c, e) ==
    CASE fm = "dispatch" -> install_after(c, e)
      [] fm = "positional" -> main_pos_after(c, e)
      [] fm = "plugin" -> Install_after(c, e)

-----------------------------------------------------------------------------
(* The file systems the program is started on. *)

OV == <<"ov">>
RT == <<"rt">>
\* os.Executable(): the installer sits in the overlay's installers
\* directory.                                          installer.go:71-81
Exe == Join(OV, <<"installers", "asus-ascent-gx10-overlay">>)
\* The working directory of the process.
Cwd == <<"cwd">>

\* Standard input: a document with its two path fields (the empty string
\* is the empty sequence), nothing at all, or text that is not YAML.
Document(mp, ap) == [kind |-> "document", mountPrefix |-> mp, artifactsPath |-> ap]
NoDocument(k) == [kind |-> k, mountPrefix |-> <<>>, artifactsPath |-> <<>>]

\* The invocation the imager makes of a form: install with a document
\* naming the target root; the two roots as arguments; no arguments.
UsualArgs(fm) ==
    CASE fm = "dispatch" -> <<"install">>
      [] fm = "positional" -> <<OV, RT>>
      [] fm = "plugin" -> <<>>
UsualStdin == Document(RT, <<>>)
\* The roots before main has run; NewInstaller and the options of Install
\* hand the plugin form its two.                       installer.go:233-240
Roots0(fm) == IF fm = "plugin" THEN [overlayPath |-> OV, rootfsPath |-> RT]
              ELSE [overlayPath |-> <<>>, rootfsPath |-> <<>>]

Slots == Categories \X {"art", "leg"}
SlotRel(s) == IF s[2] = "art" THEN ArtifactsRel(s[1]) ELSE LegacyRel(s[1])

\* What is staged in a candidate directory: relative path -> entry.  The
\* two candidates of a category differ in content, and the legacy one holds
\* a name the artifacts/ one lacks.  The staged config files come with a
\* read-only lib (artifacts/) and a read-only root (legacy).
TreeOf(s) ==
    CASE s = <<KM, "art">> ->
           (<<>> :> DirEntry(Perm0755)) @@ (<<"x">> :> FileEntry(<<1>>, Perm0644))
      [] s = <<KM, "leg">> ->
           (<<>> :> DirEntry(Perm0755)) @@ (<<"x">> :> FileEntry(<<2>>, Perm0600))
           @@ (<<"y">> :> FileEntry(<<2, 2>>, Perm0644))
      [] s = <<FW, "art">> ->
           (<<>> :> DirEntry(Perm0755)) @@ (<<"x">> :> FileEntry(<<3>>, Perm0644))
      [] s = <<FW, "leg">> ->
           (<<>> :> DirEntry(Perm0755)) @@ (<<"modules">> :> DirEntry(Perm0755))
           @@ (<<"x">> :> FileEntry(<<4>>, Perm0600))
      [] s = <<CF, "art">> ->
           (<<>> :> DirEntry(Perm0755)) @@ (<<"lib">> :> DirEntry(Perm0555))
           @@ (<<"lib", "modules">> :> DirEntry(Perm0755))
           @@ (<<"lib", "modules", "x">> :> FileEntry(<<5>>, Perm0644))
      [] s = <<CF, "leg">> ->
           (<<>> :> DirEntry(Perm0555)) @@ (<<"x">> :> FileEntry(<<6>>, Perm0600))
           @@ (<<"y">> :> FileEntry(<<6, 6>>, Perm0644))

\* A candidate path is absent, a directory holding its tree, or a regular
\* file.
SlotKinds == {"absent", "dir", "file"}

SlotEntries(ov, s, kind) ==
    CASE kind = "absent" -> {}
      [] kind = "file" -> {<<Join(ov, SlotRel(s)), FileEntry(<<7>>, Perm0644)>>}
      [] kind = "dir" ->
           {<<Join(Join(ov, SlotRel(s)), r), TreeOf(s)[r]>> : r \in DOMAIN TreeOf(s)}

\* What the target holds before the run.
Targets == {"empty", "populated", "blocked"}

TargetEntries(rt, t) ==
    CASE t = "empty" -> {<<rt, DirEntry(Perm0755)>>}
      [] t = "populated" ->
           {<<rt, DirEntry(Perm0755)>>,
            <<Join(rt, <<"keep">>), FileEntry(<<8>>, Perm0644)>>,
            <<Join(rt, <<"lib">>), DirEntry(Perm0755)>>,
            <<Join(rt, <<"lib", "modules">>), DirEntry(Perm0755)>>,
            <<Join(rt, <<"lib", "modules", "x">>),
              FileEntry([n \in 1..StaleLen |-> 9], Perm0600)>>}
      [] t = "blocked" ->
           {<<rt, DirEntry(Perm0755)>>,
            <<Join(rt, <<"lib">>), FileEntry(<<8>>, Perm0644)>>}

FaultKinds == {"open", "read"}
\* What a staged file is when it is not a regular file.
SpecialKinds == {"symlink to file", "symlink to dir", "dangling symlink",
                 "socket", "device"}
\* A path that names nothing.
Gone == <<"gone">>

\* The staged file e made unreadable (fault fk), or replaced by a special
\* file (kind fk).
Damaged(e, fk) ==
    CASE fk \in FaultKinds -> [e EXCEPT !.fault = fk]
      [] fk = "symlink to file" -> LinkEntry(Exe)
      [] fk = "symlink to dir" -> LinkEntry(OV)
      [] fk = "dangling symlink" -> LinkEntry(Gone)
      [] fk \in {"socket", "device"} -> OtherEntry(fk, e.mode)

\* The file system holding the given (path, entry) pairs, every missing
\* ancestor a directory, and the given files faulty.
MakeFS(pairs, faulty, fk) ==
    LET given == {pe[1] : pe \in pairs}
        all == UNION {{Prefix(p, n) : n \in 0..Len(p)} : p \in given}
        entry(p) == IF p \in given
                    THEN (CHOOSE pe \in pairs : pe[1] = p)[2]
                    ELSE DirEntry(Perm0755)
    IN [p \in all |-> IF p \in faulty THEN Damaged(entry(p), fk)
                      ELSE entry(p)]

Layouts == [Slots -> SlotKinds]
FileSlots(k) == {s \in Slots : k[s] = "file"}

OverlayPairs(ov, k) == UNION {SlotEntries(ov, s, k[s]) : s \in Slots}

\* The staged regular files of a layout: the ones a fault can hit.
StagedFiles(ov, k) ==
    {pe[1] : pe \in {q \in OverlayPairs(ov, k) : q[2].kind = "file"}}

Forms == {"dispatch", "positional", "plugin"}

\* The departures a start state makes (see MaxOdd).
Oddities(k, t, faulty) ==
    Cardinality(FileSlots(k)) + Cardinality(faulty) + (IF t = "empty" THEN 0 ELSE 1)

Init ==
    /\ form \in Forms
    /\ args = UsualArgs(form)
    /\ stdin = UsualStdin
    /\ overlayPath = Roots0(form).overlayPath
    /\ rootfsPath = Roots0(form).rootfsPath
    /\ umask = Umask022
    /\ euid = "root"
    /\ \E k \in {l \in Layouts : Cardinality(FileSlots(l)) <= MaxOdd},
          t \in Targets, fk \in FaultKinds \cup SpecialKinds :
         \E faulty \in {F \in SUBSET StagedFiles(OV, k) : Cardinality(F) <= MaxOdd} :
            /\ Oddities(k, t, faulty) <= MaxOdd
            /\ (faulty = {} => fk = "open")
            /\ (fk \in SpecialKinds => Oddities(k, t, faulty) = 1)
            /\ fs = MakeFS(OverlayPairs(OV, k) \cup TargetEntries(RT, t)
                              \cup {<<Exe, FileEntry(<<0>>, Perm0755)>>},
                           faulty, fk)
    /\ fs0 = fs
    /\ pc = "start"
    /\ stage = "none"
    /\ src = <<>>
    /\ dst = <<>>
    /\ todo = <<>>
    /\ result = Running
    /\ out = <<>>
    /\ log = <<>>
    /\ written = <<>>

-----------------------------------------------------------------------------
(* The program. *)

Event(ev, c, path) == [ev |-> ev, stage |-> c, path |-> path]

\* The path a string names for the kernel: an absolute path is itself; the
\* empty string joined with a relative path is that relative path, which
\* is resolved from the working directory.
Abs(s) == IF s = <<>> THEN Cwd ELSE s

\* yaml.NewDecoder(os.Stdin).Decode(&options): empty input is io.EOF,
\* malformed input a syntax error; a document yields its fields, a field
\* it lacks being the empty string.                    installer.go:63-66
Decode(in) ==
    [err |-> CASE in.kind = "document" -> "none"
               [] in.kind = "empty" -> "EOF"
               [] in.kind = "malformed" -> "yaml",
     options |-> [MountPrefix |-> in.mountPrefix, ArtifactsPath |-> in.artifactsPath]]

\* What a step of main leaves when it ends the run at once.
Ends(res, lines) ==
    [pc |-> "exit", result |-> res, says |-> lines,
     overlayPath |-> <<>>, rootfsPath |-> <<>>]

\* Mutant of install_begin: the decoder's error is dropped and install
\* goes on with whatever the options hold.
install_begin_ignoreDecode(in) ==
    [pc |-> KM, result |-> Running,
     says |-> <<Line("stdout", "Installing ASUS Ascent GX10 overlay...", "none"),
                Line("stdout", "Overlay path", "none"),
                Line("stdout", "Rootfs path", "none")>>,
     overlayPath |-> Dir(Dir(Exe)),
     rootfsPath |-> Abs(Decode(in).options.MountPrefix)]

\* install() up to its first stage: the options are decoded and the two
\* roots are known; a decode error comes back to main, which prints it and
\* exits with 1.                          installer.go:40-43,61-85
install_begin(in) ==
    IF Decode(in).err # "none"
    THEN Ends(Failure("none", "failed to decode install options"),
              <<Line("stderr", "Error: failed to decode install options", "none")>>)
    ELSE [pc |-> KM, result |-> Running,
          says |-> <<Line("stdout", "Installing ASUS Ascent GX10 overlay...", "none"),
                     Line("stdout", "Overlay path", "none"),
                     Line("stdout", "Rootfs path", "none")>>,
          overlayPath |-> Dir(Dir(Exe)),
          rootfsPath |-> Abs(Decode(in).options.MountPrefix)]

\* The document of get-options as the YAML encoder prints it, the keys of
\* the map in order.                                  installer.go:45-54
GetOptions ==
    <<Line("stdout", "kernelArgs: []", "none"),
      Line("stdout", "name: asus-ascent-gx10-overlay", "none")>>

\* Mutant of main_begin: a command main does not know is run as install.
main_begin_defaultInstall(a, in) ==
    IF Len(a) < 1
    THEN Ends(Failure("none", "usage"),
              <<Line("stderr", "Usage: <command>", "none"),
                Line("stderr", "Commands: install", "none")>>)
    ELSE IF a[1] = "get-options" THEN Ends(Success, GetOptions)
    ELSE install_begin(in)

\* main of the sub-command form, by os.Args[1:] and standard input.
\* installer.go:30-59
main_begin(a, in) ==
    IF Len(a) < 1
    THEN Ends(Failure("none", "usage"),
              <<Line("stderr", "Usage: <command>", "none"),
                Line("stderr", "Commands: install", "none")>>)
    ELSE IF a[1] = "install" THEN install_begin(in)
    ELSE IF a[1] = "get-options" THEN Ends(Success, GetOptions)
    ELSE Ends(Failure("none", "unknown command"),
              <<Line("stderr", "Unknown command", "none")>>)

\* main of the sub-command form up to the first stage, or to its exit.
\* installer.go:30-85
main ==
    /\ pc = "start"
    /\ form = "dispatch"
    /\ pc' = main_begin(args, stdin).pc
    /\ result' = main_begin(args, stdin).result
    /\ out' = out \o main_begin(args, stdin).says
    /\ overlayPath' = main_begin(args, stdin).overlayPath
    /\ rootfsPath' = main_begin(args, stdin).rootfsPath
    /\ UNCHANGED <<env, fs, stage, src, dst, todo, log, written>>

\* Mutant of main_pos_begin: the test is for one argument, and a missing
\* root is the empty string.
main_pos_begin_oneArg(a) ==
    IF Len(a) < 1
    THEN Ends(Failure("none", "usage"),
              <<Line("stderr", "Usage: <overlay-path> <rootfs-path>", "none")>>)
    ELSE [pc |-> KM, result |-> Running,
          says |-> <<Line("stdout", "Installing ASUS Ascent GX10 overlay...", "none"),
                     Line("stdout", "Overlay path", "none"),
                     Line("stdout", "Rootfs path", "none")>>,
          overlayPath |-> Abs(a[1]),
          rootfsPath |-> IF Len(a) < 2 THEN Abs(<<>>) ELSE Abs(a[2])]

\* main of the positional form, by os.Args[1:].         part_001:20-31
main_pos_begin(a) ==
    IF Len(a) < 2
    THEN Ends(Failure("none", "usage"),
              <<Line("stderr", "Usage: <overlay-path> <rootfs-path>", "none")>>)
    ELSE [pc |-> KM, result |-> Running,
          says |-> <<Line("stdout", "Installing ASUS Ascent GX10 overlay...", "none"),
                     Line("stdout", "Overlay path", "none"),
                     Line("stdout", "Rootfs path", "none")>>,
          overlayPath |-> Abs(a[1]),
          rootfsPath |-> Abs(a[2])]

\* main of the positional form up to its first stage, or to its exit.
\* part_001:20-31
main_pos ==
    /\ pc = "start"
    /\ form = "positional"
    /\ pc' = main_pos_begin(args).pc
    /\ result' = main_pos_begin(args).result
    /\ out' = out \o main_pos_begin(args).says
    /\ overlayPath' = main_pos_begin(args).overlayPath
    /\ rootfsPath' = main_pos_begin(args).rootfsPath
    /\ UNCHANGED <<env, fs, stage, src, dst, todo, log, written>>

\* A stage of a command-line form: skip when the source does not exist,
\* else start copyDirectory(sourceDir, targetDir).
\* installer.go:107-160; part_001:55-93
BeginStage(c, sourceDir, targetDir) ==
    IF Skips(fs, sourceDir)
    THEN /\ log' = Append(log, Event("skip", c, sourceDir))
         /\ out' = Append(out, Line("stdout", "not found (skipping)", c))
                      \o After(form, c, "none").says
         /\ pc' = After(form, c, "none").pc
         /\ result' = After(form, c, "none").result
         /\ UNCHANGED <<stage, src, dst, todo>>
    ELSE /\ log' = Append(log, Event("start", c, sourceDir))
         /\ out' = Append(out, Line("stdout", "Installing from to", c))
         /\ pc' = "walk"
         /\ stage' = c
         /\ src' = sourceDir
         /\ dst' = targetDir
         /\ todo' = <<sourceDir>>
         /\ UNCHANGED result

\* installKernelModules / installFirmware / installConfigFiles of the
\* sub-command form.                                  installer.go:107-160
installStage(c) ==
    /\ pc = c
    /\ form = "dispatch"
    /\ BeginStage(c, SourceDir(fs, overlayPath, c), TargetDir(c, rootfsPath))
    /\ UNCHANGED <<env, fs, overlayPath, rootfsPath, written>>

installKernelModules == installStage(KM)
installFirmware == installStage(FW)
installConfigFiles == installStage(CF)

\* The same three of the positional form.             part_001:55-93
installStage_pos(c) ==
    /\ pc = c
    /\ form = "positional"
    /\ BeginStage(c, SourceDirPos(fs, overlayPath, c), TargetDir(c, rootfsPath))
    /\ UNCHANGED <<env, fs, overlayPath, rootfsPath, written>>

installKernelModules_pos == installStage_pos(KM)
installFirmware_pos == installStage_pos(FW)
installConfigFiles_pos == installStage_pos(CF)

\* What the installer has written so far, after a step of stage c that
\* wrote the entries in wrote.
Record(w, wrote, c) ==
    [p \in (DOMAIN w) \cup (DOMAIN wrote) |->
        IF p \in DOMAIN wrote
        THEN Append(IF p \in DOMAIN w THEN w[p] ELSE <<>>,
                    [stage |-> c, entry |-> wrote[p]])
        ELSE w[p]]

\* One entry of the walk in copyDirectory; at an error, or after the last
\* entry, copyDirectory returns to the stage's caller.
\* installer.go:163-188; part_001:96-121
copyDirectoryStep ==
    /\ pc = "walk"
    /\ todo # <<>>
    /\ \E r \in {WalkOne(fs, todo, src, dst, umask)} :
          /\ fs' = r.fs
          /\ written' = Record(written, r.wrote, stage)
          /\ IF r.err # "none"
             THEN /\ log' = Append(log, Event("failed", stage, Head(todo)))
                  /\ out' = out \o After(form, stage, r.err).says
                  /\ pc' = After(form, stage, r.err).pc
                  /\ result' = After(form, stage, r.err).result
                  /\ todo' = <<>>
                  /\ stage' = "none"
             ELSE IF r.todo = <<>>
             THEN /\ log' = Append(log, Event("copied", stage, src))
                  /\ out' = out \o After(form, stage, "none").says
                  /\ pc' = After(form, stage, "none").pc
                  /\ result' = After(form, stage, "none").result
                  /\ todo' = <<>>
                  /\ stage' = "none"
             ELSE /\ todo' = r.todo
                  /\ UNCHANGED <<log, out, pc, result, stage>>
    /\ UNCHANGED <<env, overlayPath, rootfsPath, src, dst>>

\* Installer.Install up to its first stage.           installer.go:240-242
Install ==
    /\ pc = "start"
    /\ form = "plugin"
    /\ pc' = KM
    /\ UNCHANGED <<env, fs, overlayPath, rootfsPath, stage, src, dst, todo,
                   result, out, log, written>>

\* The error a stage of the plugin form returns: kernel modules and
\* firmware must exist, configuration files need not; nothing is copied.
\* installer.go:265-310
PluginStageErr(f, ov, c) ==
    IF c \in {KM, FW} /\ IsNotExist(Stat(f, SourceDirPlugin(f, ov, c)))
    THEN "not found" ELSE "none"

Installer_stage(c) ==
    /\ pc = c
    /\ form = "plugin"
    /\ LET e == PluginStageErr(fs, overlayPath, c)
       IN /\ log' = Append(log, Event(IF e # "none" THEN "failed"
                                      ELSE IF Skips(fs, SourceDirPlugin(fs, overlayPath, c))
                                      THEN "skip" ELSE "noop",
                                      c, SourceDirPlugin(fs, overlayPath, c)))
          /\ pc' = After(form, c, e).pc
          /\ result' = After(form, c, e).result
    /\ UNCHANGED <<env, fs, overlayPath, rootfsPath, stage, src, dst, todo,
                   out, written>>

Installer_installKernelModules == Installer_stage(KM)
Installer_installFirmware == Installer_stage(FW)
Installer_installConfigFiles == Installer_stage(CF)

\* configureBootParams: returns nil, changes nothing.  installer.go:313-319
Installer_configureBootParams ==
    /\ pc = BP
    /\ form = "plugin"
    /\ log' = Append(log, Event("noop", BP, <<>>))
    /\ pc' = After(form, BP, "none").pc
    /\ result' = After(form, BP, "none").result
    /\ UNCHANGED <<env, fs, overlayPath, rootfsPath, stage, src, dst, todo,
                   out, written>>

Next ==
    \/ main
    \/ installKernelModules
    \/ installFirmware
    \/ installConfigFiles
    \/ main_pos
    \/ installKernelModules_pos
    \/ installFirmware_pos
    \/ installConfigFiles_pos
    \/ copyDirectoryStep
    \/ Install
    \/ Installer_installKernelModules
    \/ Installer_installFirmware
    \/ Installer_installConfigFiles
    \/ Installer_configureBootParams

Spec == Init /\ [][Next]_vars

-----------------------------------------------------------------------------
(* The whole invocation as a function of its inputs: the stages folded in  *)
(* order from the same definitions the actions use.                        *)

\* One stage run to its end on file system f.
StageRun(fm, f, ov, rt, um, c) ==
    IF fm = "plugin"
    THEN [fs |-> f, err |-> IF c = BP THEN "none" ELSE PluginStageErr(f, ov, c)]
    ELSE IF Skips(f, SourceOf(fm, f, ov, c))
    THEN [fs |-> f, err |-> "none"]
    ELSE copyDirectory(f, SourceOf(fm, f, ov, c), TargetDir(c, rt), um)

RECURSIVE RunFrom(_, _, _, _, _, _)
RunFrom(fm, f, ov, rt, um, c) ==
    LET r == StageRun(fm, f, ov, rt, um, c)
        a == After(fm, c, r.err)
    IN IF a.pc = "exit" THEN [fs |-> r.fs, result |-> a.result]
       ELSE RunFrom(fm, r.fs, ov, rt, um, a.pc)

Run(fm, f, ov, rt, um) == RunFrom(fm, f, ov, rt, um, KM)

\* The step-by-step run ends where the fold says it ends.
StepsMatchRun ==
    pc = "exit" =>
        Run(form, fs0, overlayPath, rootfsPath, umask) = [fs |-> fs, result |-> result]

TypeOK ==
    /\ form \in Forms
    /\ pc \in {"start", KM, FW, CF, BP, "walk", "exit"}
    /\ result.code \in {-1, 0, 1}
    /\ (pc = "exit") = (result.code # -1)
    /\ (pc = "walk") = (stage # "none")
    /\ \A p \in DOMAIN fs : p = <<>> \/ IsDirAt(fs, Dir(p))

-----------------------------------------------------------------------------
(* The copier on its own: only kernel modules are staged (at the legacy    *)
(* path), as any tree over the names d, d/x, e, x, and the destination     *)
(* lib/modules starts in any state over the same names.  The other two     *)
(* stages skip, so the run ends with what the one copy left.  The process  *)
(* runs under either mask.                                                 *)

CopySrc == Join(OV, LegacyRel(KM))
CopyDst == TargetDir(KM, RT)

\* Source trees: x a file or missing, e an empty directory or missing, d
\* missing, empty, or holding the file d/x; x is writable or read-only
\* (xm), and so is d (dm).
SrcShapes == [x : BOOLEAN, e : BOOLEAN, d : {"none", "empty", "full"},
              xm : {Perm0644, Perm0444}, dm : {Perm0755, Perm0555}]

SrcPairs(sh) ==
    {<<CopySrc, DirEntry(Perm0755)>>}
    \cup (IF sh.x THEN {<<Join(CopySrc, <<"x">>), FileEntry(<<1>>, sh.xm)>>} ELSE {})
    \cup (IF sh.e THEN {<<Join(CopySrc, <<"e">>), DirEntry(Perm0755)>>} ELSE {})
    \cup (IF sh.d # "none" THEN {<<Join(CopySrc, <<"d">>), DirEntry(sh.dm)>>} ELSE {})
    \cup (IF sh.d = "full"
          THEN {<<Join(CopySrc, <<"d", "x">>), FileEntry(<<2, 2>>, Perm0600)>>} ELSE {})

\* Destination states: lib/modules missing, a regular file, or a directory
\* in which each name is missing, a longer file, or a directory.
DstShapes ==
    [top : {"none", "file"}]
    \cup [top : {"dir"}, x : {"none", "file", "dir"}, e : {"none", "file", "dir"},
          d : {"none", "file", "empty", "holds file", "holds dir"}]

Stale == FileEntry([n \in 1..StaleLen |-> 9], Perm0600)

DstNamePairs(n, st) ==
    CASE st = "none" -> {}
      [] st = "file" -> {<<Join(CopyDst, <<n>>), Stale>>}
      [] st \in {"dir", "empty"} -> {<<Join(CopyDst, <<n>>), DirEntry(Perm0755)>>}
      [] st = "holds file" -> {<<Join(CopyDst, <<n, "x">>), Stale>>}
      [] st = "holds dir" -> {<<Join(CopyDst, <<n, "x">>), DirEntry(Perm0755)>>}

DstPairs(sh) ==
    {<<RT, DirEntry(Perm0755)>>}
    \cup CASE sh.top = "none" -> {}
           [] sh.top = "file" -> {<<CopyDst, Stale>>}
           [] sh.top = "dir" ->
                {<<CopyDst, DirEntry(Perm0755)>>}
                \cup DstNamePairs("x", sh.x) \cup DstNamePairs("e", sh.e)
                \cup DstNamePairs("d", sh.d)

InitCopy ==
    /\ form \in {"dispatch", "positional"}
    /\ args = UsualArgs(form)
    /\ stdin = UsualStdin
    /\ overlayPath = Roots0(form).overlayPath
    /\ rootfsPath = Roots0(form).rootfsPath
    /\ umask \in Umasks
    /\ euid \in Euids
    /\ \E ss \in SrcShapes, ds \in DstShapes :
         fs = MakeFS(SrcPairs(ss) \cup DstPairs(ds), {}, "open")
    /\ fs0 = fs
    /\ pc = "start"
    /\ stage = "none"
    /\ src = <<>>
    /\ dst = <<>>
    /\ todo = <<>>
    /\ result = Running
    /\ out = <<>>
    /\ log = <<>>
    /\ written = <<>>

NextCopy ==
    \/ main
    \/ installKernelModules
    \/ installFirmware
    \/ installConfigFiles
    \/ main_pos
    \/ installKernelModules_pos
    \/ installFirmware_pos
    \/ installConfigFiles_pos
    \/ copyDirectoryStep

SpecCopy == InitCopy /\ [][NextCopy]_vars

-----------------------------------------------------------------------------
(* The command line on its own: every way of invoking the two command-line *)
(* forms, on every overlay whose candidates are directories or missing, on *)
(* a target that is empty or has a regular file at lib.  A second overlay  *)
(* sits at alt, and the working directory is empty.                        *)

ALT == <<"alt">>

\* os.Args[1:] of a form.
CmdArgs(fm) ==
    IF fm = "dispatch"
    THEN {<<>>, <<"install">>, <<"get-options">>, <<"frobnicate">>}
    ELSE {<<>>, <<OV>>, <<OV, RT>>}

\* Standard input, whatever the command; the positional form is given
\* none.
CmdStdin(fm, a) ==
    IF fm = "dispatch"
    THEN {NoDocument("empty"), NoDocument("malformed")}
         \cup {Document(mp, ap) : mp \in {<<>>, RT}, ap \in {<<>>, ALT}}
    ELSE {NoDocument("empty")}

CmdLayouts == [Slots -> {"absent", "dir"}]

InitCmd ==
    /\ form \in {"dispatch", "positional"}
    /\ args \in CmdArgs(form)
    /\ stdin \in CmdStdin(form, args)
    /\ overlayPath = Roots0(form).overlayPath
    /\ rootfsPath = Roots0(form).rootfsPath
    /\ umask = Umask022
    /\ euid = "root"
    /\ \E k \in CmdLayouts, t \in {"empty", "blocked"} :
         fs = MakeFS(OverlayPairs(OV, k) \cup TargetEntries(RT, t)
                        \cup SlotEntries(ALT, <<KM, "leg">>, "dir")
                        \cup {<<Cwd, DirEntry(Perm0755)>>},
                     {}, "open")
    /\ fs0 = fs
    /\ pc = "start"
    /\ stage = "none"
    /\ src = <<>>
    /\ dst = <<>>
    /\ todo = <<>>
    /\ result = Running
    /\ out = <<>>
    /\ log = <<>>
    /\ written = <<>>

SpecCmd == InitCmd /\ [][NextCopy]_vars

-----------------------------------------------------------------------------
(* The resolver of the sub-command form on overlays where stat of a        *)
(* candidate can fail: artifacts or install is a regular file, or a        *)
(* directory its owner may not search, and the process runs as root or as  *)
(* that owner.                                                             *)

Blockades == {"none", "file", "locked"}

\* The directories above the candidates that a blockade can sit on.
Blocked == {<<"artifacts">>, <<"install">>}

\* Nothing is staged below a regular file.
StatLayouts(b, at) ==
    {k \in CmdLayouts :
        b = "file" => \A s \in Slots : IsPrefix(at, SlotRel(s)) => k[s] = "absent"}

BlockadeEntries(ov, b, at) ==
    CASE b = "none" -> {}
      [] b = "file" -> {<<Join(ov, at), FileEntry(<<7>>, Perm0644)>>}
      [] b = "locked" -> {<<Join(ov, at), DirEntry(Perm0600)>>}

InitStat ==
    /\ form = "dispatch"
    /\ args = UsualArgs(form)
    /\ stdin = UsualStdin
    /\ overlayPath = Roots0(form).overlayPath
    /\ rootfsPath = Roots0(form).rootfsPath
    /\ umask = Umask022
    /\ euid \in Euids
    /\ \E b \in Blockades, at \in Blocked :
         \E k \in StatLayouts(b, at) :
            fs = MakeFS(OverlayPairs(OV, k) \cup BlockadeEntries(OV, b, at)
                           \cup TargetEntries(RT, "empty")
                           \cup {<<Exe, FileEntry(<<0>>, Perm0755)>>},
                        {}, "open")
    /\ fs0 = fs
    /\ pc = "start"
    /\ stage = "none"
    /\ src = <<>>
    /\ dst = <<>>
    /\ todo = <<>>
    /\ result = Running
    /\ out = <<>>
    /\ log = <<>>
    /\ written = <<>>

NextStat ==
    \/ main
    \/ installKernelModules
    \/ installFirmware
    \/ installConfigFiles
    \/ copyDirectoryStep

SpecStat == InitStat /\ [][NextStat]_vars

-----------------------------------------------------------------------------
(* Placements of the two roots: the target root apart from the overlay,    *)
(* the overlay root itself (every source lies inside the target), and a    *)
(* source directory of the overlay (the target lies inside the overlay,    *)
(* and a stage's destination inside its own source).  The process runs to  *)
(* its end without waiting for anything but its own file-system calls.     *)

Placements == {RT, OV} \cup {Join(OV, LegacyRel(c)) : c \in Categories}

\* What a legacy directory holds: nothing but a file, or also the
\* directories of its category's own target path.
PlaceKinds(c) == IF c = CF THEN {"absent", "plain"} ELSE {"absent", "plain", "nested"}

PlaceTree(c, kind) ==
    LET plain == (<<>> :> DirEntry(Perm0755)) @@ (<<"x">> :> FileEntry(<<1>>, Perm0644))
    IN CASE kind = "absent" -> <<>>
         [] kind = "plain" /\ c # CF -> plain
         [] kind = "plain" /\ c = CF ->
              plain @@ (<<"lib">> :> DirEntry(Perm0755))
              @@ (<<"lib", "modules">> :> DirEntry(Perm0755))
              @@ (<<"lib", "modules", "x">> :> FileEntry(<<5>>, Perm0644))
         [] kind = "nested" ->
              plain @@ (<<"lib">> :> DirEntry(Perm0755))
              @@ (TargetDir(c, <<>>) :> DirEntry(Perm0755))

PlacePairs(ov, k) ==
    UNION {{<<Join(Join(ov, LegacyRel(c)), r), PlaceTree(c, k[c])[r]>> :
                r \in DOMAIN PlaceTree(c, k[c])} : c \in Categories}

PlaceLayouts == {k \in [Categories -> {"absent", "plain", "nested"}] :
                    \A c \in Categories : k[c] \in PlaceKinds(c)}

InitPlace ==
    /\ form \in {"dispatch", "positional"}
    /\ \E rt \in Placements :
         /\ args = IF form = "dispatch" THEN <<"install">> ELSE <<OV, rt>>
         /\ stdin = IF form = "dispatch" THEN Document(rt, <<>>) ELSE NoDocument("empty")
         /\ \E k \in PlaceLayouts :
              fs = MakeFS(PlacePairs(OV, k)
                             \cup (IF rt = RT THEN TargetEntries(RT, "empty") ELSE {})
                             \cup {<<Exe, FileEntry(<<0>>, Perm0755)>>},
                          {}, "open")
    /\ overlayPath = Roots0(form).overlayPath
    /\ rootfsPath = Roots0(form).rootfsPath
    /\ umask = Umask022
    /\ euid = "root"
    /\ fs0 = fs
    /\ pc = "start"
    /\ stage = "none"
    /\ src = <<>>
    /\ dst = <<>>
    /\ todo = <<>>
    /\ result = Running
    /\ out = <<>>
    /\ log = <<>>
    /\ written = <<>>

\* One process, run by the kernel until it exits: a step that can be taken
\* is taken.
SpecPlace == InitPlace /\ [][NextCopy]_vars /\ WF_vars(NextCopy)

-----------------------------------------------------------------------------
(* Vocabulary of the properties. *)

CLI == form \in {"dispatch", "positional"}
ArtifactsPath(c) == Join(overlayPath, ArtifactsRel(c))
LegacyPath(c) == Join(overlayPath, LegacyRel(c))
LogIdx == 1..Len(log)
Logged(ev, c) == \E i \in LogIdx : log[i].ev = ev /\ log[i].stage = c
LoggedStages == {log[i].stage : i \in LogIdx}

\* The part of a file system under the target root.
TargetTree(f, rt) == [p \in {q \in DOMAIN f : IsPrefix(rt, q)} |-> f[p]]

\* A category is staged when a directory sits at one of its two candidates.
CategoryPresent(c) == IsDirAt(fs0, ArtifactsPath(c)) \/ IsDirAt(fs0, LegacyPath(c))

SameOutcome(r) ==
    /\ TargetTree(r.fs, rootfsPath) = TargetTree(fs, rootfsPath)
    /\ r.result.code = result.code
    /\ r.result.failed = result.failed

-----------------------------------------------------------------------------
\* C1: in both command-line forms the stages run at most once each and in
\* the order kernel-modules, firmware, config-files; a stage starts only
\* after the one before it was skipped or copied, and none is attempted
\* twice.
C1_StagesInOrder ==
    CLI =>
      /\ \A i, j \in LogIdx :
            i < j => /\ StageIndex(log[i].stage) <= StageIndex(log[j].stage)
                     /\ (log[i].stage = log[j].stage =>
                            /\ j = i + 1
                            /\ log[i].ev = "start"
                            /\ log[j].ev \in {"copied", "failed"})
      /\ \A i \in LogIdx :
            log[i].ev \in {"copied", "failed"} =>
                i > 1 /\ log[i - 1].ev = "start" /\ log[i - 1].stage = log[i].stage
      /\ pc \in Categories =>
            /\ LoggedStages = {StageOrder[n] : n \in 1..(StageIndex(pc) - 1)}
            /\ log # <<>> => log[Len(log)].ev \in {"skip", "copied"}
      /\ pc = "walk" =>
            /\ log # <<>>
            /\ log[Len(log)].ev = "start"
            /\ log[Len(log)].stage = stage
            /\ LoggedStages = {StageOrder[n] : n \in 1..StageIndex(stage)}
      /\ pc = "start" => log = <<>>

C1_Witness ==
    /\ form = "positional"
    /\ pc = "exit"
    /\ \A c \in Categories : Logged("copied", c)

\* C2: in the command-line forms an unstaged category never produces an
\* error and every staged category is installed: the run fails only in a
\* staged category, and a successful run has copied every staged category.
C2_SkipNotFail ==
    (CLI /\ pc = "exit") =>
      /\ result.code = 1 => CategoryPresent(result.failed)
      /\ result.code = 0 =>
            \A c \in Categories : CategoryPresent(c) => Logged("copied", c)

\* C3: when the copy of a category fails the invocation ends in failure,
\* the error names that category, and nothing runs after it.
C3_FailFast ==
    CLI =>
      \A i \in LogIdx :
        log[i].ev = "failed" =>
            /\ i = Len(log)
            /\ pc = "exit"
            /\ result.code = 1
            /\ result.failed = log[i].stage
            /\ ~ENABLED Next

C3_Witness ==
    /\ CLI
    /\ Logged("copied", KM)
    /\ Logged("failed", FW)
    /\ result = Failure(FW, "EACCES")

\* Stage c wrote path p.
WrittenBy(p, c) ==
    p \in DOMAIN written /\ \E n \in 1..Len(written[p]) : written[p][n].stage = c
LastWrite(p) == written[p][Len(written[p])]

\* C4 (as stated): after a failed stage every entry written by an earlier
\* stage or by the failing stage is present exactly as that stage wrote it.
C4_WritesUnchanged ==
    (pc = "exit" /\ result.code = 1) =>
      \A p \in DOMAIN written :
        \A n \in 1..Len(written[p]) :
          Exists(fs, p) /\ fs[p] = written[p][n].entry

\* C4 (amended): nothing the installer wrote is ever deleted or reverted:
\* in every state, the state after a failure included, each written path
\* is present and holds what the last write to it left.
C4_NoRollback ==
    \A p \in DOMAIN written : Exists(fs, p) /\ fs[p] = LastWrite(p).entry

C4_Witness ==
    /\ result.code = 1
    /\ result.failed = CF
    /\ \E p \in DOMAIN written : WrittenBy(p, KM) /\ LastWrite(p).entry.kind = "file"
    /\ \E p \in DOMAIN written : WrittenBy(p, CF) /\ LastWrite(p).entry.kind = "file"

\* C5: the three forms leave the same target and agree on success: the
\* final state of any form is the final state of every other form on the
\* same start state.
C5_VariantEquivalence ==
    pc = "exit" =>
      \A fm \in Forms :
        LET r == Run(fm, fs0, overlayPath, rootfsPath, umask)
        IN /\ TargetTree(r.fs, rootfsPath) = TargetTree(fs, rootfsPath)
           /\ r.result.code = result.code

\* File system f with the staged directory of every category in cs moved
\* from its legacy path to its artifacts/ path.
MoveToArtifacts(f, ov, cs) ==
    LET home(p) == {c \in cs : IsPrefix(Join(ov, LegacyRel(c)), p)}
        to(p) == IF home(p) = {} THEN p
                 ELSE LET c == CHOOSE x \in home(p) : TRUE
                      IN Join(Join(ov, ArtifactsRel(c)), Rel(Join(ov, LegacyRel(c)), p))
        image == {to(p) : p \in DOMAIN f}
        all == UNION {{Prefix(q, n) : n \in 0..Len(q)} : q \in image}
    IN [q \in all |-> IF q \in image
                      THEN f[CHOOSE p \in DOMAIN f : to(p) = q]
                      ELSE DirEntry(Perm0755)]

\* The categories staged at the legacy path only.
LegacyOnly ==
    {c \in Categories : /\ IsDirAt(fs0, LegacyPath(c))
                        /\ Stat(fs0, ArtifactsPath(c)) = "ENOENT"}

\* C6: a category staged only at its legacy path is taken from there, and
\* the run leaves the target as it would with the same content staged at
\* the artifacts/ path.
C6_LayoutFallback ==
    (form = "dispatch" /\ pc = "exit") =>
      /\ \A i \in LogIdx :
            (log[i].stage \in LegacyOnly /\ log[i].ev \in {"skip", "start"}) =>
                log[i].ev = "start" /\ log[i].path = LegacyPath(log[i].stage)
      /\ \A cs \in (SUBSET LegacyOnly) \ {{}} :
            SameOutcome(Run("dispatch", MoveToArtifacts(fs0, overlayPath, cs),
                            overlayPath, rootfsPath, umask))

C6_Witness ==
    /\ form = "dispatch"
    /\ pc = "exit"
    /\ result.code = 0
    /\ LegacyOnly = {KM, CF}
    /\ Logged("copied", KM)
    /\ Logged("copied", CF)

\* The source the stage of category c started on, if it started.
StartedOn(c) == {log[i].path : i \in {j \in LogIdx : log[j].stage = c /\ log[j].ev = "start"}}

\* C7: in the sub-command form at most one source root is copied per
\* category; when both candidates exist it is the artifacts/ one, and
\* every path the stage writes under its target is the image of a path of
\* that one root.
C7_SingleSource ==
    form = "dispatch" =>
      \A c \in Categories :
        /\ Cardinality({i \in LogIdx : log[i].stage = c /\ log[i].ev = "start"}) <= 1
        /\ (Stat(fs0, ArtifactsPath(c)) = "ok" /\ Stat(fs0, LegacyPath(c)) = "ok") =>
              StartedOn(c) \subseteq {ArtifactsPath(c)}
        /\ \A p \in DOMAIN written :
              WrittenBy(p, c) =>
                \/ IsPrefix(p, TargetDir(c, rootfsPath))
                \/ \E s \in StartedOn(c) :
                      Join(s, Rel(TargetDir(c, rootfsPath), p)) \in DOMAIN fs0

C7_Witness ==
    /\ form = "dispatch"
    /\ pc = "exit"
    /\ IsDirAt(fs0, ArtifactsPath(KM))
    /\ IsDirAt(fs0, LegacyPath(KM))
    /\ Logged("copied", KM)
    /\ Exists(fs, Join(TargetDir(KM, rootfsPath), <<"x">>))
    /\ ~Exists(fs, Join(TargetDir(KM, rootfsPath), <<"y">>))

\* C8: the positional form installs a category staged only at its
\* artifacts/ path.
C8_PositionalPreferredLayout ==
    (form = "positional" /\ pc = "exit" /\ result.code = 0) =>
      \A c \in Categories :
        (IsDirAt(fs0, ArtifactsPath(c)) /\ Stat(fs0, LegacyPath(c)) = "ENOENT") =>
            Logged("copied", c)

\* File system f without the candidate paths that are regular files.
WithoutFileCandidates(f, ov) ==
    LET odd == {p \in {Join(ov, SlotRel(s)) : s \in Slots} :
                    Exists(f, p) /\ f[p].kind # "dir"}
    IN [p \in (DOMAIN f) \ odd |-> f[p]]

\* C9: a candidate path that is a regular file counts as absent: the run
\* ends as it would without that file.
C9_NonDirectoryIsAbsent ==
    (CLI /\ pc = "exit") =>
      SameOutcome(Run(form, WithoutFileCandidates(fs0, overlayPath),
                      overlayPath, rootfsPath, umask))

\* C10: after copyDirectory(src, dst) returned without error, whatever dst
\* held before, every regular file under src is a regular file at the same
\* relative path under dst with the source's bytes and no others, and
\* every directory under src, the root and the empty ones included, is a
\* directory under dst.
C10_CopyPostcondition ==
    \A i \in LogIdx :
      log[i].ev = "copied" =>
        \A p \in {q \in DOMAIN fs0 : IsPrefix(log[i].path, q)} :
          LET q == Join(TargetDir(log[i].stage, rootfsPath), Rel(log[i].path, p))
          IN /\ Exists(fs, q)
             /\ fs[q].kind = fs0[p].kind
             /\ fs[q].data = fs0[p].data

C10_Witness ==
    /\ pc = "exit"
    /\ Logged("copied", KM)
    /\ Exists(fs0, Join(CopySrc, <<"x">>))
    /\ Exists(fs0, Join(CopySrc, <<"e">>))
    /\ Exists(fs0, Join(CopySrc, <<"d", "x">>))
    /\ Exists(fs0, Join(CopyDst, <<"x">>))
    /\ fs0[Join(CopyDst, <<"x">>)].kind = "file"
    /\ Len(fs0[Join(CopyDst, <<"x">>)].data) > Len(fs0[Join(CopySrc, <<"x">>)].data)
    /\ ~Exists(fs0, Join(CopyDst, <<"e">>))
    /\ fs[Join(CopyDst, <<"x">>)].data = <<1>>

\* The paths of file system f below (and including) root.
Under(f, root) == {q \in DOMAIN f : IsPrefix(root, q)}

\* C11: after copyDirectory(src, dst) returned without error every entry
\* under dst that is the image of an entry under src carries the
\* permission bits of that source entry.
C11_PermissionPreservation ==
    \A i \in LogIdx :
      log[i].ev = "copied" =>
        \A p \in Under(fs0, log[i].path) :
          LET q == Join(TargetDir(log[i].stage, rootfsPath), Rel(log[i].path, p))
          IN Exists(fs, q) => fs[q].mode = fs0[p].mode

\* File system f with nothing below the target root rt.
EmptyTarget(f, rt) == [p \in {q \in DOMAIN f : ~(IsPrefix(rt, q) /\ q # rt)} |-> f[p]]

\* C12: after a successful run a second run on the state the first one
\* left, the overlay unchanged, succeeds too, and every entry a run on an
\* emptied target produces is there after the second run with the same
\* kind, bytes and permission bits.
C12_Idempotence ==
    (pc = "exit" /\ result.code = 0) =>
      LET again == Run(form, fs, overlayPath, rootfsPath, umask)
          fresh == Run(form, EmptyTarget(fs0, rootfsPath), overlayPath, rootfsPath, umask)
      IN /\ again.result.code = 0
         /\ fresh.result.code = 0 =>
               \A q \in Under(fresh.fs, rootfsPath) :
                 Exists(again.fs, q) /\ again.fs[q] = fresh.fs[q]

\* C13: in the command-line forms a successful run leaves every regular
\* file of the tree the config-files stage copied from at the same
\* relative path directly under the target root, with the staged bytes;
\* and whatever the config-files stage writes, in any state, is the image
\* of a path of that tree.
C13_ConfigRelativePaths ==
    CLI =>
      /\ (pc = "exit" /\ result.code = 0) =>
            \A s \in StartedOn(CF) :
              \A p \in Under(fs0, s) :
                fs0[p].kind = "file" =>
                  LET q == Join(rootfsPath, Rel(s, p))
                  IN Exists(fs, q) /\ fs[q].kind = "file" /\ fs[q].data = fs0[p].data
      /\ \A q \in DOMAIN written :
            WrittenBy(q, CF) =>
              /\ IsPrefix(rootfsPath, q)
              /\ \E s \in StartedOn(CF) : Join(s, Rel(rootfsPath, q)) \in DOMAIN fs0

C13_Witness ==
    /\ CLI
    /\ pc = "exit"
    /\ result.code = 0
    /\ StartedOn(CF) = {ArtifactsPath(CF)}
    /\ WrittenBy(Join(rootfsPath, <<"lib">>), CF)
    /\ fs[Join(rootfsPath, <<"lib", "modules", "x">>)].data
          = fs0[Join(ArtifactsPath(CF), <<"lib", "modules", "x">>)].data
    /\ ~Exists(fs, Join(rootfsPath, <<"files">>))
    /\ ~Exists(fs, Join(rootfsPath, <<"artifacts">>))

\* The run has changed nothing and no stage has been entered.
Untouched ==
    /\ fs = fs0
    /\ written = <<>>
    /\ log = <<>>
    /\ pc \in {"start", "exit"}
    /\ stage = "none"

\* C14: the positional form started with fewer than two arguments never
\* enters a stage and never changes the file system, and it ends with a
\* non-zero exit code after printing its usage to standard error.
C14_UsageShortCircuit ==
    (form = "positional" /\ Len(args) < 2) =>
      /\ Untouched
      /\ pc = "exit" =>
            /\ result.code = 1
            /\ out # <<>>
            /\ \A i \in 1..Len(out) : out[i].stream = "stderr"

C14_Witness ==
    /\ form = "positional"
    /\ args = <<OV>>
    /\ pc = "exit"
    /\ result.code = 1
    /\ \A c \in Categories : IsDirAt(fs, Join(OV, LegacyRel(c)))
    /\ Children(fs, RT) = {}

\* The run is the sub-command install.
IsInstall == form = "dispatch" /\ Len(args) >= 1 /\ args[1] = "install"

\* C15: install on standard input that is empty or not YAML ends with the
\* decode error and exit code 1 without having entered a stage or changed
\* the file system; in every state in which install has written
\* something the options were decoded without error.
C15_DecodeBeforeWrite ==
    IsInstall =>
      /\ Decode(stdin).err # "none" =>
            /\ Untouched
            /\ pc = "exit" =>
                  /\ result = Failure("none", "failed to decode install options")
                  /\ \A i \in 1..Len(out) : out[i].stream = "stderr"
      /\ (fs # fs0 \/ written # <<>>) => Decode(stdin).err = "none"

C15_Witness ==
    /\ IsInstall
    /\ stdin.kind = "malformed"
    /\ pc = "exit"
    /\ result.code = 1
    /\ \A c \in Categories : IsDirAt(fs, Join(OV, ArtifactsRel(c)))
    /\ Children(fs, RT) = {}
    /\ Children(fs, Cwd) = {}

\* C16: install on a document without a mount prefix ends in failure
\* without having entered a stage or written anything, under the working
\* directory or anywhere else.
C16_MountPrefixRequired ==
    (IsInstall /\ Decode(stdin).err = "none"
               /\ Decode(stdin).options.MountPrefix = <<>>) =>
      /\ Untouched
      /\ \A p \in DOMAIN fs : IsPrefix(Cwd, p) => p \in DOMAIN fs0
      /\ pc = "exit" => result.code = 1

\* C17: once install has decoded its options the overlay root is the
\* artifacts path when the document names one, and the directory two
\* levels above the executable only when it names none; every category
\* is looked for below that root.
C17_OverlayRootSelection ==
    (IsInstall /\ Decode(stdin).err = "none" /\ pc # "start") =>
      LET ap == Decode(stdin).options.ArtifactsPath
          root == IF ap # <<>> THEN Abs(ap) ELSE Dir(Dir(Exe))
      IN /\ overlayPath = root
         /\ \A i \in LogIdx : IsPrefix(root, log[i].path)

MarkerAt == {i \in 1..Len(out) : out[i].text = Marker}
\* Every stage has run and was skipped or copied.
AllStagesDone == \A c \in Categories : Logged("skip", c) \/ Logged("copied", c)

\* C19: install has printed the success marker exactly when each of the
\* three stages was skipped or copied; the marker is then the last line,
\* on standard output, and the exit code is 0.  When a stage failed the
\* last line is the error naming that stage on standard error, the exit
\* code is 1 and the marker was not printed.  A finished install has exit
\* code 0 only with the marker.
C19_ExitOutputContract ==
    IsInstall =>
      /\ (MarkerAt # {}) <=> AllStagesDone
      /\ MarkerAt # {} =>
            /\ MarkerAt = {Len(out)}
            /\ out[Len(out)].stream = "stdout"
            /\ pc = "exit"
            /\ result.code = 0
      /\ \A c \in Categories :
            Logged("failed", c) =>
              /\ pc = "exit"
              /\ result.code = 1
              /\ out[Len(out)] = Line("stderr", "Error: failed to install", c)
              /\ MarkerAt = {}
      /\ pc = "exit" => (result.code = 0 <=> MarkerAt # {})

C19_Witness ==
    /\ IsInstall
    /\ pc = "exit"
    /\ result.code = 0
    /\ out[Len(out)].text = Marker
    /\ Logged("copied", KM)
    /\ Logged("skip", FW)
    /\ Logged("copied", CF)

\* C20: Installer.Install runs its stages in the order kernel-modules,
\* firmware, config-files, boot-parameters, each at most once and none
\* after one that returned an error; the boot-parameter stage has run only
\* if the three before it returned no error; and Install returns nil
\* exactly when all four have run and none returned an error.
C20_PluginStageSequence ==
    form = "plugin" =>
      /\ Len(log) <= Len(StageOrder)
      /\ \A i \in LogIdx :
            /\ log[i].stage = StageOrder[i]
            /\ log[i].ev = "failed" =>
                  /\ i = Len(log)
                  /\ pc = "exit"
                  /\ result.code = 1
                  /\ result.failed = log[i].stage
      /\ pc \in {KM, FW, CF, BP} => Len(log) = StageIndex(pc) - 1
      /\ Logged("noop", BP) =>
            \A c \in Categories : Logged("noop", c) \/ Logged("skip", c)
      /\ pc = "exit" =>
            (result.code = 0 <=>
                /\ Len(log) = Len(StageOrder)
                /\ \A i \in LogIdx : log[i].ev # "failed")

C20_Witness ==
    /\ form = "plugin"
    /\ pc = "exit"
    /\ result = Success
    /\ Len(log) = 4
    /\ log[4].stage = BP
    /\ Logged("skip", CF)

\* C21: in the plugin form a kernel-modules or firmware category that is
\* staged at no candidate path is passed over: its stage returns no error
\* and Install does not fail in it.
C21_PluginSkipNotFail ==
    form = "plugin" =>
      \A c \in {KM, FW} :
        ~CategoryPresent(c) =>
          /\ ~Logged("failed", c)
          /\ pc = "exit" => result.failed # c

\* Category c is staged at neither candidate path.
Absent(c) ==
    Stat(fs0, ArtifactsPath(c)) = "ENOENT" /\ Stat(fs0, LegacyPath(c)) = "ENOENT"

\* C22: in the command-line forms the stage of a category staged at
\* neither candidate path starts no copy and writes nothing; and after a
\* successful run with firmware absent, lib/firmware exists under the
\* target only if it was there before or the config-files stage wrote it.
C22_SkipWritesNothing ==
    (CLI /\ pc # "start") =>
      /\ \A c \in Categories :
            Absent(c) =>
              /\ \A i \in LogIdx : log[i].stage = c => log[i].ev = "skip"
              /\ \A p \in DOMAIN written : ~WrittenBy(p, c)
      /\ (pc = "exit" /\ result.code = 0 /\ Absent(FW)) =>
            LET p == TargetDir(FW, rootfsPath)
            IN Exists(fs, p) => (Exists(fs0, p) \/ WrittenBy(p, CF))

C22_Witness ==
    /\ CLI
    /\ pc = "exit"
    /\ result.code = 0
    /\ Absent(FW)
    /\ Logged("copied", KM)
    /\ Logged("skip", FW)
    /\ Logged("copied", CF)
    /\ Exists(fs, TargetDir(KM, rootfsPath))
    /\ ~Exists(fs, TargetDir(FW, rootfsPath))

\* The entries of the source a stage of category c started on that are
\* neither directories nor regular files.
SpecialIn(c) ==
    {p \in UNION {Under(fs0, s) : s \in StartedOn(c)} : fs0[p].kind \notin {"dir", "file"}}

\* C23: in the command-line forms a category whose source holds a
\* symbolic link, a socket or a device is never copied with success: its
\* copy ends with an error, and the run never ends with success having
\* written a regular file where the special entry maps to.
C23_SpecialFiles ==
    CLI =>
      \A c \in Categories :
        \A p \in SpecialIn(c) :
          /\ ~Logged("copied", c)
          /\ \A s \in StartedOn(c) :
                LET q == Join(TargetDir(c, rootfsPath), Rel(s, p))
                IN (IsPrefix(s, p) /\ pc = "exit" /\ result.code = 0) =>
                      ~(WrittenBy(q, c) /\ fs[q].kind = "file")

-----------------------------------------------------------------------------
(* C24 *)

\* The run is over: in the success state after the last stage, or in the
\* failure state at the error of the stage that was running.
Terminated ==
    /\ pc = "exit"
    /\ todo = <<>>
    /\ \/ /\ result = Success
          /\ \A c \in {KM, FW, CF} : Logged("skip", c) \/ Logged("copied", c)
       \/ /\ result.code = 1
          /\ log # <<>>
          /\ log[Len(log)].ev = "failed"
          /\ log[Len(log)].stage = result.failed

\* C24: every invocation of a command-line orchestrator on a finite overlay
\* tree eventually reaches the success state after the last stage or the
\* failure state at the first fatal error, wherever the target root lies:
\* apart from the overlay, at the overlay root, or inside a source
\* directory of the overlay.
C24_Termination == <>Terminated

\* The destination of the kernel-modules stage lies inside its own source
\* and the walk followed the directories it made until the kernel refused
\* the path.
C24_Witness ==
    /\ pc = "exit"
    /\ rootfsPath = Join(OV, LegacyRel(KM))
    /\ result = Failure(KM, "ENAMETOOLONG")
    /\ \E p \in DOMAIN written : Len(p) = MaxPath

-----------------------------------------------------------------------------
(* C25 *)

\* The order of the walk: a directory before what it holds, and where two
\* paths part the lexically smaller name first.
Before(p, q) ==
    /\ p # q
    /\ \/ IsPrefix(p, q)
       \/ /\ ~IsPrefix(q, p)
          /\ LET i == CHOOSE n \in 1..Len(p) :
                         p[n] # q[n] /\ \A k \in 1..(n - 1) : p[k] = q[k]
             IN Rank(p[i]) < Rank(q[i])

\* Where stage c, copying from s, puts source entry q.
Image(c, s, q) == Join(TargetDir(c, rootfsPath), Rel(s, q))

\* Source entry q has been written to the destination.
Copied(c, s, q) ==
    /\ Exists(fs, Image(c, s, q))
    /\ fs[Image(c, s, q)].kind = fs0[q].kind
    /\ fs[Image(c, s, q)].data = fs0[q].data

\* The destination of source entry q is as it was when stage c began.
NotReached(c, s, q) ==
    /\ ~WrittenBy(Image(c, s, q), c)
    /\ Image(c, s, q) \notin DOMAIN written =>
          /\ Exists(fs, Image(c, s, q)) = Exists(fs0, Image(c, s, q))
          /\ Exists(fs, Image(c, s, q)) => fs[Image(c, s, q)] = fs0[Image(c, s, q)]

\* The walk of stage c over s stands (or stopped) at entry p.
WalkAt(c, s, p) ==
    \A q \in Under(fs0, s) :
      /\ Before(q, p) => Copied(c, s, q)
      /\ Before(p, q) => NotReached(c, s, q)

\* C25: the copier visits the entries of the source in a fixed order, a
\* directory before its contents and siblings in lexical order; at the
\* first entry whose mkdir, open or copy fails the walk stops: every entry
\* earlier in that order has been written to the destination and no entry
\* later in that order has been created or modified.
C25_FailFastInCategory ==
    CLI =>
      /\ pc = "walk" => WalkAt(stage, src, Head(todo))
      /\ \A i \in LogIdx :
           log[i].ev = "failed" =>
             \A s \in StartedOn(log[i].stage) : WalkAt(log[i].stage, s, log[i].path)

\* The walk stopped at e, whose destination is a regular file: d and d/x
\* were copied before, x was never created.
C25_Witness ==
    /\ pc = "exit"
    /\ \E i \in LogIdx :
         /\ log[i].ev = "failed"
         /\ log[i].stage = KM
         /\ log[i].path = Join(CopySrc, <<"e">>)
    /\ WrittenBy(Join(CopyDst, <<"d", "x">>), KM)
    /\ Exists(fs0, Join(CopySrc, <<"x">>))
    /\ ~Exists(fs, Join(CopyDst, <<"x">>))

-----------------------------------------------------------------------------
(* C26 *)

\* Path p is the directory t, above it, or below it.
Along(p, t) == IsPrefix(p, t) \/ IsPrefix(t, p)

\* C26: in every execution of a command-line form every path created or
\* written lies under the target root; the kernel-modules stage writes
\* only <target-root>/lib/modules, its ancestors and descendants, the
\* firmware stage only <target-root>/lib/firmware, its ancestors and
\* descendants; and nothing under the overlay root is ever written.
C26_WriteConfinement ==
    CLI =>
      \A p \in DOMAIN written :
        /\ IsPrefix(rootfsPath, p)
        /\ \A c \in {KM, FW} : WrittenBy(p, c) => Along(p, TargetDir(c, rootfsPath))
        /\ ~IsPrefix(overlayPath, p)

-----------------------------------------------------------------------------
(* C27 *)

\* Path p is where a stage that started puts some entry of its source.
Counterpart(p) ==
    \E c \in Categories : \E s \in StartedOn(c) :
       \E q \in Under(fs0, s) : Image(c, s, q) = p

\* C27: copyDirectory neither deletes nor modifies a destination entry
\* whose relative path has no counterpart in the source tree: whatever the
\* target held before the run at a path no stage maps a source entry to is
\* there unchanged in every state of the run, failed or not.
C27_OverlayNotMirror ==
    CLI =>
      \A p \in Under(fs0, rootfsPath) :
        ~Counterpart(p) => Exists(fs, p) /\ fs[p] = fs0[p]

\* The copy went through a destination directory d that held a file the
\* source directory d lacks.
C27_Witness ==
    /\ pc = "exit"
    /\ result.code = 0
    /\ Logged("copied", KM)
    /\ IsDirAt(fs0, Join(CopySrc, <<"d">>))
    /\ ~Exists(fs0, Join(CopySrc, <<"d", "x">>))
    /\ Exists(fs0, Join(CopyDst, <<"d", "x">>))
    /\ WrittenBy(Join(CopyDst, <<"x">>), KM)
    /\ fs[Join(CopyDst, <<"d", "x">>)] = Stale

-----------------------------------------------------------------------------
(* C28 *)

\* The source entries, directories aside, that stage c puts at path p.
SourcesAt(c, p) ==
    {q \in UNION {Under(fs0, s) : s \in StartedOn(c)} :
        /\ fs0[q].kind # "dir"
        /\ \E s \in StartedOn(c) : IsPrefix(s, q) /\ Image(c, s, q) = p}

\* The stages that put a file at path p.
WritersOf(p) == {c \in Categories : SourcesAt(c, p) # {}}

\* C28: when two categories map a file to the same destination path, after
\* a successful run the destination holds the bytes of the regular file
\* the later stage staged for it (config files over firmware over kernel
\* modules).
C28_LastWriterWins ==
    (CLI /\ pc = "exit" /\ result.code = 0) =>
      \A p \in DOMAIN fs :
        \A c \in WritersOf(p) :
          (\A b \in WritersOf(p) : StageIndex(b) <= StageIndex(c)) =>
             \A q \in SourcesAt(c, p) :
                fs0[q].kind = "file" =>
                   fs[p].kind = "file" /\ fs[p].data = fs0[q].data

\* Kernel modules and config files both staged x for lib/modules/x with
\* different bytes, and the run succeeded.
C28_Witness ==
    /\ pc = "exit"
    /\ result.code = 0
    /\ \E p \in DOMAIN fs :
         /\ WritersOf(p) = {KM, CF}
         /\ \E q \in SourcesAt(KM, p) : fs0[q].data # fs[p].data
         /\ \E q \in SourcesAt(CF, p) : fs0[q].data = fs[p].data
         /\ Len(written[p]) = 2

-----------------------------------------------------------------------------
(* C29 *)

\* The source entries whose image the first stage to write p put there.
CreatedFrom(p) ==
    LET c == written[p][1].stage
    IN {q \in UNION {Under(fs0, s) : s \in StartedOn(c)} :
           \E s \in StartedOn(c) : IsPrefix(s, q) /\ Image(c, s, q) = p}

\* C29: a destination file or directory that exists before a copy (the
\* target root in the config-files stage and lib/ made by an earlier stage
\* included) keeps its permission bits; source permission bits reach only
\* the entries a copy itself creates: an entry that was there before the
\* run has the bits it had, and an entry the run created has, after every
\* later write, the bits its first write gave it, which are the source's
\* less the umask.
C29_ModeOnlyOnCreation ==
    CLI =>
      /\ \A p \in DOMAIN fs0 : Exists(fs, p) /\ fs[p].mode = fs0[p].mode
      /\ \A p \in DOMAIN written :
           /\ fs[p].mode = written[p][1].entry.mode
           /\ \A n \in 1..Len(written[p]) : written[p][n].entry.mode = fs[p].mode
           /\ p \notin DOMAIN fs0 =>
                 \A q \in CreatedFrom(p) : fs[p].mode = fs0[q].mode \ umask

\* A file that was in the target before the run was overwritten from a
\* source of other bits.
ExistingFileKept ==
    \E p \in DOMAIN written :
       /\ p \in DOMAIN fs0
       /\ \E q \in SourcesAt(KM, p) : fs0[q].mode \ umask # fs0[p].mode
       /\ fs[p].data # fs0[p].data
\* The config files were copied onto the target root from a root of other
\* bits.
TargetRootKept ==
    /\ Logged("copied", CF)
    /\ \E s \in StartedOn(CF) : fs0[s].mode \ umask # fs[rootfsPath].mode

C29_Witness ==
    /\ pc = "exit"
    /\ result.code = 0
    /\ ExistingFileKept
    /\ TargetRootKept

-----------------------------------------------------------------------------
(* C30 *)

\* What stat says of the two candidates of category c.
StatArtifacts(c) == Stat(fs0, ArtifactsPath(c))
StatLegacy(c) == Stat(fs0, LegacyPath(c))

\* Stage c went into the copy of source s and the copy's error, on s
\* itself, ended the run.
CopyFailedOn(c, s, e) ==
    /\ StartedOn(c) = {s}
    /\ ~Logged("skip", c)
    /\ pc \notin {"walk", c} =>
          /\ \E i \in LogIdx : log[i] = Event("failed", c, s)
          /\ pc = "exit"
          /\ result = Failure(c, e)

\* C30: in the resolver of the sub-command form the legacy candidate is
\* tried, and a stage is skipped, only when stat says the path does not
\* exist; when stat of a candidate fails for another reason (ENOTDIR,
\* EACCES) the legacy candidate is not tried and the stage is not skipped:
\* the copy is started on that candidate and its error fails the run.
C30_SkipOnlyOnNotExist ==
    (form = "dispatch" /\ pc # "start") =>
      \A c \in Categories :
        /\ Logged("skip", c) => StatArtifacts(c) = "ENOENT" /\ StatLegacy(c) = "ENOENT"
        /\ LegacyPath(c) \in StartedOn(c) => StatArtifacts(c) = "ENOENT"
        /\ (StatArtifacts(c) \notin {"ok", "ENOENT"} /\ LoggedStages \cap {c} # {}) =>
              CopyFailedOn(c, ArtifactsPath(c), StatArtifacts(c))
        /\ (/\ StatArtifacts(c) = "ENOENT"
            /\ StatLegacy(c) \notin {"ok", "ENOENT"}
            /\ LoggedStages \cap {c} # {}) =>
              CopyFailedOn(c, LegacyPath(c), StatLegacy(c))

\* The artifacts directory may not be searched, the legacy kernel modules
\* are staged, and the run failed in the kernel-modules stage on the
\* artifacts candidate.
C30_Witness ==
    /\ pc = "exit"
    /\ StatArtifacts(KM) = "EACCES"
    /\ StatLegacy(KM) = "ok"
    /\ result = Failure(KM, "EACCES")
    /\ StartedOn(KM) = {ArtifactsPath(KM)}
    /\ written = <<>>

====
